---------------------------- MODULE Spec2Model ----------------------------
(***************************************************************************)
(* A model of the boundednumbers package: the bounding functions          *)
(* (numbers/functions.py), the bounded-integer classes                    *)
(* (numbers/bounded.py), ModuloInt and modulo_range                       *)
(* (numbers/modulo_int.py) and UnitFloat / EnforcedUnitFloat              *)
(* (numbers/unit_float.py).                                                *)
(*                                                                         *)
(* Python values are records tagged by their run-time type:               *)
(*   [t |-> "int", v]                          a plain int                 *)
(*   [t |-> "bounded", kind, v, min_value, max_value]   a BoundedInt       *)
(*   [t |-> "modulo", v, modulus]              a ModuloInt                 *)
(*   [t |-> "err", e]                          a raised exception          *)
(* Each component has a specification of its own (SpecBounding,           *)
(* SpecBounded, SpecModular, SpecInverse, SpecRange, SpecFloat); the       *)
(* variables of the other components stay at Idle.                         *)
(***************************************************************************)
EXTENDS Integers, Sequences, FiniteSets, TLC

VARIABLES fcall,    \* a call of one bounding function, applied once and twice
          cur,      \* the bounded integer the program currently holds
          last,     \* the last BoundedInt operation: operands and result
          mcur,     \* the ModuloInt the program currently holds
          mraw,     \* the raw integer mcur was constructed from, or NoRaw
          mlast,    \* the last ModuloInt operation: operands and result
          inv,      \* the frame of a running ModuloInt.inverse() call
          gen,      \* the generator object made by modulo_range(...)
          yielded,  \* the values the generator has yielded so far
          uf,       \* the EnforcedUnitFloat the program currently holds
          flast     \* the last EnforcedUnitFloat operation

vars == <<fcall, cur, last, mcur, mraw, mlast, inv, gen, yielded, uf, flast>>

Idle == [pc |-> "idle"]

----------------------------------------------------------------------------
(* Bounds of the model.                                                    *)

\* raw integers are drawn from -MaxRaw .. MaxRaw
MaxRaw == 4
\* range ends min_value, max_value are drawn from -MaxEnd .. MaxEnd
MaxEnd == 1

\* ModuloInt moduli are drawn from 0 .. MaxModulus (0 is the invalid modulus)
MaxModulus == 3
\* ModuloInt raw values and plain operands are drawn from -MaxModRaw .. MaxModRaw
MaxModRaw == 3

\* inverse() is called on ModuloInt(a, n), a in -MaxInvRaw .. MaxInvRaw and
\* n in 1 .. MaxInvModulus
MaxInvRaw == 8
MaxInvModulus == 8

\* modulo_range: start and stop are drawn from -1 .. MaxRangeInt, step from
\* -1 .. MaxStep, modulus from 0 .. MaxRangeModulus, an explicit
\* max_range_amount from 0 .. MaxAmount; a generator in INFINITE mode is
\* resumed at most MaxCount times
MaxRangeInt == 3
MaxStep == 3
MaxRangeModulus == 6
MaxAmount == 2
MaxCount == 5

\* floats: a finite float is a whole number n of units of 1/FScale, of
\* magnitude at most FMax (in units of 1.0); plain operands are drawn from
\* the multiples of FStep units up to FMaxOperand units, and from the ints
\* -MaxFloatInt .. MaxFloatInt
FScale == 10
FMax == 100
FStep == 5
FMaxOperand == 20
MaxFloatInt == 2

RawInts == (0 - MaxRaw) .. MaxRaw
Ends == (0 - MaxEnd) .. MaxEnd

Kinds == {"CLAMP", "CYCLIC", "BOUNCE"}

----------------------------------------------------------------------------
(* numbers/functions.py                                                    *)

\* Python's a % b on integers, b # 0: the result has the sign of b
PyMod(a, b) == IF b > 0 THEN a % b ELSE 0 - ((0 - a) % (0 - b))

\* Python's a // b on integers, b # 0: the floor of the quotient
PyFloorDiv(a, b) == IF b > 0 THEN a \div b ELSE (0 - a) \div (0 - b)

\* Python's built-in min(a, b) and max(a, b) on integers
PyMin(a, b) == IF b < a THEN b ELSE a
PyMax(a, b) == IF b > a THEN b ELSE a

ValueError == [t |-> "err", e |-> "ValueError"]
ZeroDivisionError == [t |-> "err", e |-> "ZeroDivisionError"]
IsErr(x) == x.t = "err"

Int_(v) == [t |-> "int", v |-> v]

clamp(value, min_value, max_value) == PyMax(PyMin(value, max_value), min_value)

\* defined for max_value > min_value; the ValueError of line 25 is raised by
\* apply_bound below, which guards the call
bounce(value, min_value, max_value) ==
    LET range_size == max_value - min_value
        mod_value == (value - min_value) % (2 * range_size)
    IN IF mod_value > range_size
          THEN max_value - (mod_value - range_size)
          ELSE min_value + mod_value

cyclic_wrap_no_offset(value, min_value, max_value) ==
    LET size == max_value - min_value + 1
    IN PyMod(value - min_value, size)

\* defined for size # 0; the ZeroDivisionError of % for size = 0 is raised by
\* apply_bound below, which guards the call
cyclic_wrap(value, min_value, max_value) ==
    LET size == max_value - min_value + 1
    IN PyMod(value - min_value, size) + min_value

----------------------------------------------------------------------------
(* numbers/bounded.py                                                      *)

\* _apply_bound / apply_bound: the bounded plain value, or the exception the
\* bounding function raises (bounce: range_size <= 0; cyclic_wrap: size = 0)
apply_bound(bound_type, value, min_value, max_value) ==
    CASE bound_type = "CLAMP" -> Int_(clamp(value, min_value, max_value))
      [] bound_type = "CYCLIC" ->
            IF max_value - min_value + 1 = 0
               THEN ZeroDivisionError
               ELSE Int_(cyclic_wrap(value, min_value, max_value))
      [] bound_type = "BOUNCE" ->
            IF max_value - min_value <= 0
               THEN ValueError
               ELSE Int_(bounce(value, min_value, max_value))

\* BoundedInt.__new__(cls, value, min_value, max_value), cls made for kind
BoundedInt_new(kind, value, min_value, max_value) ==
    LET bounded == apply_bound(kind, value, min_value, max_value)
    IN IF IsErr(bounded)
          THEN bounded
          ELSE [t |-> "bounded", kind |-> kind, v |-> bounded.v,
                min_value |-> min_value, max_value |-> max_value]

BoundedInt_bounded_unbounded(self, value) ==
    [t |-> "bounded", kind |-> self.kind, v |-> value.v,
     min_value |-> self.min_value, max_value |-> self.max_value]

\* BoundedInt._bounded(self, value): value is an int or an int subclass
BoundedInt_bounded(self, value) ==
    BoundedInt_new(self.kind, value.v, self.min_value, self.max_value)

\* self.__add__(other) for a plain int other: int(self) + other is int + int
BoundedInt_add_int(self, k) == BoundedInt_bounded(self, Int_(self.v + k))

\* BoundedInt.__radd__(self, other)
BoundedInt_radd(self, k) == BoundedInt_add_int(self, k)

\* The expression  x + other  for a plain int x. A BoundedInt is a subclass
\* of int that overrides __radd__, so Python tries other.__radd__(x) first.
IntPlus(x, other) ==
    IF other.t = "bounded" THEN BoundedInt_radd(other, x)
                           ELSE Int_(x + other.v)

\* x - other and x * other for a plain int x: BoundedInt defines neither
\* __rsub__ nor __rmul__, so int.__sub__ / int.__mul__ give a plain int
IntMinus(x, other) == Int_(x - other.v)
IntTimes(x, other) == Int_(x * other.v)

BoundedInt_add_unwrapped(self, other) == IntPlus(self.v, other)

BoundedInt_add(self, other) == BoundedInt_bounded(self, IntPlus(self.v, other))
BoundedInt_sub(self, other) == BoundedInt_bounded(self, IntMinus(self.v, other))
BoundedInt_mul(self, other) == BoundedInt_bounded(self, IntTimes(self.v, other))

Ops == {"add", "sub", "mul"}

\* The Python expression  x op y  where at least one side is a BoundedInt
BinaryOp(op, x, y) ==
    IF x.t = "bounded"
       THEN CASE op = "add" -> BoundedInt_add(x, y)
              [] op = "sub" -> BoundedInt_sub(x, y)
              [] op = "mul" -> BoundedInt_mul(x, y)
       ELSE CASE op = "add" -> IntPlus(x.v, y)
              [] op = "sub" -> IntMinus(x.v, y)
              [] op = "mul" -> IntTimes(x.v, y)

\* the constructor calls that return a value
Constructible(kind) ==
    { BoundedInt_new(kind, v, mn, mx) :
        <<v, mn, mx>> \in { w \in RawInts \X Ends \X Ends :
                              IF kind = "BOUNCE" THEN w[2] < w[3] ELSE w[2] <= w[3] } }

InRange(b) == b.min_value <= b.v /\ b.v <= b.max_value

\* the state after one constructor call BoundedInt(value, min_value, max_value)
\* that returned; last keeps the call's arguments
InitBounded ==
    /\ \E kind \in Kinds, v \in RawInts, mn \in Ends, mx \in Ends :
          /\ IF kind = "BOUNCE" THEN mn < mx ELSE mn <= mx
          /\ cur = BoundedInt_new(kind, v, mn, mx)
          /\ last = [op |-> "new", form |-> "new", a |-> Int_(v),
                     b |-> [t |-> "range", kind |-> kind,
                            min_value |-> mn, max_value |-> mx],
                     r |-> cur]
    /\ fcall = Idle /\ mcur = Idle /\ mraw = Idle /\ mlast = Idle /\ inv = Idle
    /\ gen = Idle /\ yielded = <<>> /\ uf = Idle /\ flast = Idle

OthersOfBounded == <<fcall, mcur, mraw, mlast, inv, gen, yielded, uf, flast>>

\* cur op k, the right operand a plain int
OpWithInt(op, k) ==
    LET r == BinaryOp(op, cur, Int_(k))
    IN /\ last' = [op |-> op, form |-> "bounded_int", a |-> cur, b |-> Int_(k), r |-> r]
       /\ cur' = IF r.t = "bounded" THEN r ELSE cur
       /\ UNCHANGED OthersOfBounded

\* k op cur, the left operand a plain int
IntWithOp(op, k) ==
    LET r == BinaryOp(op, Int_(k), cur)
    IN /\ last' = [op |-> op, form |-> "int_bounded", a |-> Int_(k), b |-> cur, r |-> r]
       /\ cur' = IF r.t = "bounded" THEN r ELSE cur
       /\ UNCHANGED OthersOfBounded

\* cur op b, both operands bounded integers of the same class
OpWithBounded(op, b) ==
    LET r == BinaryOp(op, cur, b)
    IN /\ last' = [op |-> op, form |-> "bounded_bounded", a |-> cur, b |-> b, r |-> r]
       /\ cur' = IF r.t = "bounded" THEN r ELSE cur
       /\ UNCHANGED OthersOfBounded

NextBounded ==
    \/ \E op \in Ops, k \in RawInts : OpWithInt(op, k)
    \/ \E op \in Ops, k \in RawInts : IntWithOp(op, k)
    \/ \E op \in Ops : \E b \in Constructible(cur.kind) : OpWithBounded(op, b)

SpecBounded == InitBounded /\ [][NextBounded]_vars


----------------------------------------------------------------------------
(* The bounding functions called directly: f(value, min_value, max_value), *)
(* and then f again on what the first call returned.                       *)

InitBounding ==
    /\ \E f \in Kinds, v \in RawInts, mn \in Ends, mx \in Ends :
          fcall = [pc |-> "call", f |-> f, value |-> v, min_value |-> mn,
                   max_value |-> mx, once |-> Int_(v), twice |-> Int_(v)]
    /\ cur = Idle /\ last = Idle
    /\ mcur = Idle /\ mraw = Idle /\ mlast = Idle /\ inv = Idle
    /\ gen = Idle /\ yielded = <<>> /\ uf = Idle /\ flast = Idle

OthersOfBounding == <<cur, last, mcur, mraw, mlast, inv, gen, yielded, uf, flast>>

ApplyOnce ==
    /\ fcall.pc = "call"
    /\ LET r == apply_bound(fcall.f, fcall.value, fcall.min_value, fcall.max_value)
       IN fcall' = [fcall EXCEPT !.pc = IF IsErr(r) THEN "raised" ELSE "once",
                                 !.once = r, !.twice = r]
    /\ UNCHANGED OthersOfBounding

ApplyTwice ==
    /\ fcall.pc = "once"
    /\ LET r == apply_bound(fcall.f, fcall.once.v, fcall.min_value, fcall.max_value)
       IN fcall' = [fcall EXCEPT !.pc = "twice", !.twice = r]
    /\ UNCHANGED OthersOfBounding

NextBounding == ApplyOnce \/ ApplyTwice

SpecBounding == InitBounding /\ [][NextBounding]_vars

\* the ranges the bounding functions are specified for
ValidRange(f, mn, mx) == IF f = "BOUNCE" THEN mn < mx ELSE mn <= mx

\* C9: for min <= max (min < max for bounce), each bounding function returns
\* a value already in [min, max] unchanged, and applying it to its own result
\* changes nothing.
C9_IdentityInRangeAndIdempotent ==
    (fcall.pc \in {"once", "twice", "raised"}
        /\ ValidRange(fcall.f, fcall.min_value, fcall.max_value))
        => /\ fcall.pc # "raised"
           /\ (fcall.min_value <= fcall.value /\ fcall.value <= fcall.max_value)
                 => fcall.once = Int_(fcall.value)
           /\ fcall.pc = "twice" => fcall.twice = fcall.once

\* bounce applied twice to a value that started outside a range with a
\* non-zero lower end
C9_Witness ==
    /\ fcall.pc = "twice"
    /\ fcall.f = "BOUNCE"
    /\ fcall.min_value < fcall.max_value
    /\ fcall.min_value # 0
    /\ fcall.value > fcall.max_value
    /\ fcall.once.v # fcall.value
    /\ fcall.twice = fcall.once

----------------------------------------------------------------------------
(* numbers/modulo_int.py: ModuloInt                                        *)

Abs(x) == IF x < 0 THEN 0 - x ELSE x

\* math.gcd
RECURSIVE gcd(_, _)
gcd(a, b) == IF b = 0 THEN Abs(a) ELSE gcd(Abs(b), Abs(a) % Abs(b))

\* the built-in pow(base, e, m) for e >= 0, m > 0
RECURSIVE pow3(_, _, _)
pow3(base, e, m) == IF e = 0 THEN 1 % m ELSE (base * pow3(base, e - 1, m)) % m

ModuloInt_new_unnormalized(value, modulus) ==
    IF modulus <= 0
       THEN ValueError
       ELSE [t |-> "modulo", v |-> value, modulus |-> modulus]

\* ModuloInt.__new__(cls, value, modulus)
ModuloInt_new(value, modulus) ==
    IF modulus <= 0
       THEN ValueError
       ELSE [t |-> "modulo", v |-> value % modulus, modulus |-> modulus]

ModuloInt_coerce_unchecked(self, other) == Int_(other.v)

\* ModuloInt._coerce(self, other), other a ModuloInt or a plain int
ModuloInt_coerce(self, other) ==
    IF other.t = "modulo"
       THEN IF other.modulus # self.modulus THEN ValueError ELSE Int_(other.v)
       ELSE other

ModuloInt_add(self, other) ==
    LET o == ModuloInt_coerce(self, other)
    IN IF IsErr(o) THEN o ELSE ModuloInt_new(self.v + o.v, self.modulus)

ModuloInt_sub(self, other) ==
    LET o == ModuloInt_coerce(self, other)
    IN IF IsErr(o) THEN o ELSE ModuloInt_new(self.v - o.v, self.modulus)

ModuloInt_mul(self, other) ==
    LET o == ModuloInt_coerce(self, other)
    IN IF IsErr(o) THEN o ELSE ModuloInt_new(self.v * o.v, self.modulus)

ModuloInt_floordiv(self, other) ==
    LET o == ModuloInt_coerce(self, other)
    IN IF IsErr(o) THEN o
       ELSE IF o.v = 0 THEN ZeroDivisionError
       ELSE ModuloInt_new(PyFloorDiv(self.v, o.v), self.modulus)

ModuloInt_mod(self, other) ==
    LET o == ModuloInt_coerce(self, other)
    IN IF IsErr(o) THEN o
       ELSE IF o.v = 0 THEN ZeroDivisionError
       ELSE ModuloInt_new(PyMod(self.v, o.v), self.modulus)

\* self ** other (modulo is None); exponents o >= 0
ModuloInt_pow(self, other) ==
    LET o == ModuloInt_coerce(self, other)
    IN IF IsErr(o) THEN o
       ELSE ModuloInt_new(pow3(self.v, o.v, self.modulus), self.modulus)

ModOps == {"add", "sub", "mul", "floordiv", "mod", "pow"}

\* the Python expression  self op other  for a ModuloInt self
ModuloInt_binop(op, self, other) ==
    CASE op = "add" -> ModuloInt_add(self, other)
      [] op = "sub" -> ModuloInt_sub(self, other)
      [] op = "mul" -> ModuloInt_mul(self, other)
      [] op = "floordiv" -> ModuloInt_floordiv(self, other)
      [] op = "mod" -> ModuloInt_mod(self, other)
      [] op = "pow" -> ModuloInt_pow(self, other)

NoRaw == [t |-> "none"]

Moduli == 1 .. MaxModulus
ModRaws == (0 - MaxModRaw) .. MaxModRaw

InitModular ==
    /\ \E a \in ModRaws, m \in Moduli :
          /\ mcur = ModuloInt_new(a, m)
          /\ mraw = Int_(a)
          /\ mlast = [op |-> "new", a |-> mcur, araw |-> mraw,
                      b |-> Int_(m), braw |-> Int_(m), r |-> mcur]
    /\ fcall = Idle /\ cur = Idle /\ last = Idle /\ inv = Idle
    /\ gen = Idle /\ yielded = <<>> /\ uf = Idle /\ flast = Idle

OthersOfModular == <<fcall, cur, last, inv, gen, yielded, uf, flast>>

\* ModuloInt(a, m): a new value, or the ValueError of a modulus <= 0
NewModuloInt(a, m) ==
    LET r == ModuloInt_new(a, m)
    IN /\ mlast' = [op |-> "new", a |-> mcur, araw |-> mraw,
                    b |-> Int_(m), braw |-> Int_(m), r |-> r]
       /\ mcur' = IF IsErr(r) THEN mcur ELSE r
       /\ mraw' = IF IsErr(r) THEN mraw ELSE Int_(a)
       /\ UNCHANGED OthersOfModular

\* mcur op ModuloInt(b, bm)
ModOpModulo(op, b, bm) ==
    LET other == ModuloInt_new(b, bm)
        r == ModuloInt_binop(op, mcur, other)
    IN /\ mlast' = [op |-> op, a |-> mcur, araw |-> mraw,
                    b |-> other, braw |-> Int_(b), r |-> r]
       /\ mcur' = IF IsErr(r) THEN mcur ELSE r
       /\ mraw' = IF IsErr(r) THEN mraw ELSE NoRaw
       /\ UNCHANGED OthersOfModular

\* mcur op k for a plain int k
ModOpInt(op, k) ==
    /\ op = "pow" => k >= 0
    /\ LET r == ModuloInt_binop(op, mcur, Int_(k))
       IN /\ mlast' = [op |-> op, a |-> mcur, araw |-> mraw,
                       b |-> Int_(k), braw |-> Int_(k), r |-> r]
          /\ mcur' = IF IsErr(r) THEN mcur ELSE r
          /\ mraw' = IF IsErr(r) THEN mraw ELSE NoRaw
    /\ UNCHANGED OthersOfModular

NextModular ==
    \/ \E a \in ModRaws, m \in 0 .. MaxModulus : NewModuloInt(a, m)
    \/ \E op \in ModOps, b \in ModRaws, bm \in Moduli : ModOpModulo(op, b, bm)
    \/ \E op \in ModOps, k \in ModRaws : ModOpInt(op, k)

SpecModular == InitModular /\ [][NextModular]_vars

----------------------------------------------------------------------------
(* ModuloInt.inverse(), one action per step of its body. inv is the frame:  *)
(* self, the raw integer self was constructed from, the locals t, new_t,   *)
(* r, new_r, and what the call returned or raised.                         *)

InitInverse ==
    /\ \E a \in (0 - MaxInvRaw) .. MaxInvRaw, n \in 1 .. MaxInvModulus :
          inv = [pc |-> "call", self |-> ModuloInt_new(a, n), araw |-> a,
                 t |-> 0, new_t |-> 0, r |-> 0, new_r |-> 0, ret |-> NoRaw]
    /\ fcall = Idle /\ cur = Idle /\ last = Idle
    /\ mcur = Idle /\ mraw = Idle /\ mlast = Idle
    /\ gen = Idle /\ yielded = <<>> /\ uf = Idle /\ flast = Idle

OthersOfInverse == <<fcall, cur, last, mcur, mraw, mlast, gen, yielded, uf, flast>>

\* lines 44-49: the gcd test, then the initial locals
InverseEnter ==
    /\ inv.pc = "call"
    /\ LET a == inv.self.v
           n == inv.self.modulus
       IN IF gcd(a, n) # 1
             THEN inv' = [inv EXCEPT !.pc = "raised", !.ret = ValueError]
             ELSE inv' = [inv EXCEPT !.pc = "loop", !.t = 0, !.new_t = 1,
                                     !.r = n, !.new_r = a]
    /\ UNCHANGED OthersOfInverse

inverse_body_plus(f) ==
    LET q == PyFloorDiv(f.r, f.new_r)
    IN [f EXCEPT !.t = f.new_t, !.new_t = f.t + q * f.new_t,
                 !.r = f.new_r, !.new_r = f.r - q * f.new_r]

\* lines 51-53: one pass of the loop body
inverse_body(f) ==
    LET q == PyFloorDiv(f.r, f.new_r)
    IN [f EXCEPT !.t = f.new_t, !.new_t = f.t - q * f.new_t,
                 !.r = f.new_r, !.new_r = f.r - q * f.new_r]

\* line 50, the test true
InverseLoop ==
    /\ inv.pc = "loop"
    /\ inv.new_r # 0
    /\ inv' = inverse_body(inv)
    /\ UNCHANGED OthersOfInverse

\* line 50, the test false, and line 54
InverseReturn ==
    /\ inv.pc = "loop"
    /\ inv.new_r = 0
    /\ inv' = [inv EXCEPT !.pc = "returned",
                          !.ret = ModuloInt_new(inv.t, inv.self.modulus)]
    /\ UNCHANGED OthersOfInverse

NextInverse == InverseEnter \/ InverseLoop \/ InverseReturn

\* the call runs to its end once made: nothing else is scheduled
SpecInverse == InitInverse /\ [][NextInverse]_vars /\ WF_vars(NextInverse)

\* a and n have no common divisor above 1 (stated without gcd)
Coprime(a, n) == \A d \in 2 .. n : ~(a % d = 0 /\ n % d = 0)

InverseDone == inv.pc \in {"returned", "raised"}

\* C3 as stated: whenever inverse() returns x, (a * x) mod m = 1.
C3_InverseProductIsOne ==
    inv.pc = "returned"
        => (inv.araw * inv.ret.v) % inv.self.modulus = 1

\* C3, amended: for every integer a and modulus m > 0, inverse() returns
\* exactly when a mod m and m are coprime, and then returns a ModuloInt x of
\* modulus m with (a * x) mod m = 1 mod m (1 for m >= 2, 0 for m = 1);
\* otherwise it raises and returns nothing. The loop terminates.
C3_InverseAmended ==
    /\ [](inv.pc = "returned"
            => /\ Coprime(inv.araw % inv.self.modulus, inv.self.modulus)
               /\ inv.ret.t = "modulo"
               /\ inv.ret.modulus = inv.self.modulus
               /\ 0 <= inv.ret.v /\ inv.ret.v < inv.self.modulus
               /\ (inv.araw * inv.ret.v) % inv.self.modulus
                     = 1 % inv.self.modulus)
    /\ [](inv.pc = "raised"
            => /\ ~Coprime(inv.araw % inv.self.modulus, inv.self.modulus)
               /\ inv.ret = ValueError)
    /\ <>InverseDone

\* an inverse other than 1 of a negative raw value, found after the loop ran
C3_Witness ==
    /\ inv.pc = "returned"
    /\ inv.araw < 0
    /\ inv.self.modulus > 4
    /\ inv.ret.v > 1
    /\ inv.new_t # 0

\* the mathematical value of  x op y  on unbounded integers
MathOp(op, x, y) ==
    CASE op = "add" -> x + y
      [] op = "sub" -> x - y
      [] op = "mul" -> x * y

\* C2: for all integers a, b and every modulus m > 0, ModuloInt(a, m) op
\* ModuloInt(b, m) for op in {+, -, *} is a ModuloInt of modulus m whose
\* residue is (a op b) mod m; after construction and after every operation
\* that returns, the residue r satisfies 0 <= r < m and the modulus is that
\* of the receiver.
C2_ResidueArithmetic ==
    /\ mcur.t = "modulo" /\ 0 <= mcur.v /\ mcur.v < mcur.modulus
    /\ (mlast.op # "new" /\ ~IsErr(mlast.r))
          => /\ mlast.r.t = "modulo"
             /\ mlast.r.modulus = mlast.a.modulus
             /\ 0 <= mlast.r.v /\ mlast.r.v < mlast.r.modulus
    /\ (/\ mlast.op \in {"add", "sub", "mul"}
        /\ mlast.araw.t = "int"
        /\ mlast.b.t = "modulo"
        /\ mlast.b.modulus = mlast.a.modulus)
          => /\ mlast.r.t = "modulo"
             /\ mlast.r.modulus = mlast.a.modulus
             /\ mlast.r.v = MathOp(mlast.op, mlast.araw.v, mlast.braw.v)
                               % mlast.a.modulus

\* a difference of two freshly constructed values, both raw values negative
\* and the mathematical difference negative
C2_Witness ==
    /\ mlast.op = "sub"
    /\ mlast.araw.t = "int" /\ mlast.araw.v < 0
    /\ mlast.b.t = "modulo" /\ mlast.braw.v < 0
    /\ mlast.b.modulus = mlast.a.modulus
    /\ mlast.araw.v - mlast.braw.v < 0
    /\ mlast.r.t = "modulo" /\ mlast.r.v > 0

\* C8: each of +, -, *, floor-div, mod and pow on two ModuloInt values with
\* different moduli fails with ModulusMismatch (a ValueError): no result value
\* is produced and the operands are as they were.
C8_ModulusMismatchFails ==
    (mlast.op # "new" /\ mlast.b.t = "modulo" /\ mlast.b.modulus # mlast.a.modulus)
        => /\ mlast.r = ValueError
           /\ mcur = mlast.a
           /\ mraw = mlast.araw

\* a floor division by a zero residue of another modulus: the mismatch is
\* reported, not the division by zero
C8_Witness ==
    /\ mlast.op = "floordiv"
    /\ mlast.b.t = "modulo"
    /\ mlast.b.modulus > mlast.a.modulus
    /\ mlast.b.v = 0
    /\ mlast.r = ValueError
    /\ mcur = mlast.a

----------------------------------------------------------------------------
(* modulo_range: a generator function. Calling it runs none of its body and *)
(* returns a generator object (pc = "created"); the body runs, from the top *)
(* or from the last yield, each time the caller asks for the next element. *)

DETECT == [t |-> "mode", m |-> "DETECT"]
INFINITE == [t |-> "mode", m |-> "INFINITE"]
Inf == [t |-> "inf"]
Directions == {"INCREASING", "DECREASING"}

InitRange ==
    /\ gen = Idle
    /\ yielded = <<>>
    /\ fcall = Idle /\ cur = Idle /\ last = Idle
    /\ mcur = Idle /\ mraw = Idle /\ mlast = Idle /\ inv = Idle
    /\ uf = Idle /\ flast = Idle

OthersOfRange == <<fcall, cur, last, mcur, mraw, mlast, inv, uf, flast>>

\* g = modulo_range(start, stop, step, modulus, direction, max_range_amount)
ModuloRangeCall(start, stop, step, modulus, direction, max_range_amount) ==
    /\ gen.pc = "idle"
    /\ gen' = [pc |-> "created", start |-> start, stop |-> stop, step |-> step,
               modulus |-> modulus, direction |-> direction,
               max_range_amount |-> max_range_amount,
               current |-> NoRaw, stop_mod |-> NoRaw, max_iter |-> NoRaw,
               signed_step |-> 0, count |-> 0, exc |-> NoRaw]
    /\ UNCHANGED <<yielded>>
    /\ UNCHANGED OthersOfRange

Raised(g, e) == [g EXCEPT !.pc = "raised", !.exc = e]

\* lines 130-143: the iteration cap, or the exception
resolve_max_iter(g) ==
    IF g.max_range_amount = INFINITE THEN Inf
    ELSE IF g.max_range_amount = DETECT
         THEN Int_((g.modulus \div gcd(g.modulus, g.step)) + 1)
    ELSE IF g.max_range_amount.v <= 0 THEN ValueError
    ELSE g.max_range_amount

\* lines 121-153: the body up to the loop
modulo_range_prologue(g) ==
    IF g.step <= 0 THEN Raised(g, ValueError)
    ELSE LET start_mod == ModuloInt_new(g.start, g.modulus)
             stop_mod == ModuloInt_new(g.stop, g.modulus)
         IN IF IsErr(start_mod) THEN Raised(g, start_mod)
            ELSE LET max_iter == resolve_max_iter(g)
                 IN IF IsErr(max_iter) THEN Raised(g, max_iter)
                    ELSE [g EXCEPT !.current = start_mod,
                                   !.stop_mod = stop_mod,
                                   !.max_iter = max_iter,
                                   !.signed_step =
                                       IF g.direction = "DECREASING"
                                          THEN 0 - Abs(g.step) ELSE Abs(g.step),
                                   !.count = 0]

\* lines 156-157: the statements after the yield
modulo_range_resume(g) ==
    [g EXCEPT !.current = ModuloInt_new(g.current.v + g.signed_step, g.modulus),
              !.count = g.count + 1]

CountBelow(count, max_iter) == IF max_iter = Inf THEN TRUE ELSE count < max_iter.v

loop_test_inclusive(g) ==
    /\ g.current.v # g.stop_mod.v
    /\ IF g.max_iter = Inf THEN TRUE ELSE g.count <= g.max_iter.v

\* line 154: the while test
loop_test(g) ==
    g.current.v # g.stop_mod.v /\ CountBelow(g.count, g.max_iter)

\* the body from frame f at the while test to the next yield or to its end
RunToYield(f) ==
    IF f.pc = "raised"
       THEN gen' = f /\ UNCHANGED yielded
       ELSE IF loop_test(f)
               THEN /\ gen' = [f EXCEPT !.pc = "suspended"]
                    /\ yielded' = Append(yielded, f.current)
               ELSE /\ gen' = [f EXCEPT !.pc = "exhausted"]
                    /\ UNCHANGED yielded

\* the first next(g): the body runs from its first line
GenFirstNext ==
    /\ gen.pc = "created"
    /\ RunToYield(modulo_range_prologue(gen))
    /\ UNCHANGED OthersOfRange

\* a later next(g): the body runs on from the yield
GenNext ==
    /\ gen.pc = "suspended"
    /\ gen.max_iter = Inf => gen.count < MaxCount
    /\ RunToYield(modulo_range_resume(gen))
    /\ UNCHANGED OthersOfRange

RangeInts == (0 - 1) .. MaxRangeInt
Steps == (0 - 1) .. MaxStep
RangeModuli == 0 .. MaxRangeModulus
Amounts == {DETECT, INFINITE} \cup {Int_(k) : k \in 0 .. MaxAmount}

NextRange ==
    \/ \E start \in RangeInts, stop \in RangeInts, step \in Steps,
          modulus \in RangeModuli, direction \in Directions,
          max_range_amount \in Amounts :
          ModuloRangeCall(start, stop, step, modulus, direction, max_range_amount)
    \/ GenFirstNext
    \/ GenNext

\* the caller iterates the generator it was handed (a for loop)
SpecRange == InitRange /\ [][NextRange]_vars /\ WF_vars(GenFirstNext \/ GenNext)

InvalidCall(g) ==
    \/ g.step <= 0
    \/ g.modulus <= 0
    \/ (g.max_range_amount.t = "int" /\ g.max_range_amount.v <= 0)

\* C4: a call of modulo_range with step <= 0 (or an explicit cap <= 0, or a
\* modulus <= 0) fails at the call itself, before any element is requested:
\* the caller is handed no sequence object.
C4_InvalidCallFailsAtCall ==
    (gen.pc # "idle" /\ InvalidCall(gen)) => gen.pc = "raised"

DetectCap(g) == (g.modulus \div gcd(g.modulus, g.step)) + 1

DetectRun(g) ==
    /\ g.pc \in {"created", "suspended", "exhausted"}
    /\ g.max_range_amount = DETECT
    /\ g.step > 0
    /\ g.modulus > 0

\* C5: for all integers start and stop, every step > 0, every modulus > 0 and
\* either direction, the Detect-mode sequence yields at most
\* modulus / gcd(modulus, step) + 1 values, none at all when start and stop
\* are congruent modulo the modulus, and ends.
C5_DetectModeIsBounded ==
    /\ [](DetectRun(gen)
            => /\ Len(yielded) <= DetectCap(gen)
               /\ (gen.start % gen.modulus = gen.stop % gen.modulus)
                     => Len(yielded) = 0)
    /\ [](DetectRun(gen) => <>(gen.pc = "exhausted"))

\* a decreasing Detect-mode run that stop never ended: it yielded the whole
\* cycle and its first value again
C5_Witness ==
    /\ DetectRun(gen)
    /\ gen.pc = "exhausted"
    /\ gen.direction = "DECREASING"
    /\ DetectCap(gen) > 3
    /\ gen.step > 1
    /\ Len(yielded) = DetectCap(gen)
    /\ yielded[Len(yielded)] = yielded[1]

----------------------------------------------------------------------------
(* numbers/unit_float.py. A float is finite, an infinity or not-a-number:  *)
(*   [k |-> "fin", n]   the number n / FScale                              *)
(*   [k |-> "inf", n]   n = 1: +inf, n = -1: -inf                          *)
(*   [k |-> "nan", n]   n = 0                                              *)
(* Finite results are rounded to the nearest unit, ties to even, and        *)
(* overflow past FMax as IEEE arithmetic does. -0.0 is not told from 0.0:  *)
(* the two compare equal in every test the code makes.                      *)

Fin(n) == [k |-> "fin", n |-> n]
PInf == [k |-> "inf", n |-> 1]
NInf == [k |-> "inf", n |-> 0 - 1]
NaN == [k |-> "nan", n |-> 0]
OverflowError == [t |-> "err", e |-> "OverflowError"]

FMaxN == FMax * FScale
IsNaN(a) == a.k = "nan"
IsInf(a) == a.k = "inf"
IsZero(a) == a.k = "fin" /\ a.n = 0
Sign(a) == IF a.n > 0 THEN 1 ELSE IF a.n < 0 THEN 0 - 1 ELSE 0

\* p / q for q > 0, rounded to the nearest integer, ties to even
RoundDiv(p, q) ==
    LET fl == p \div q
        rem == p % q
    IN IF 2 * rem < q THEN fl
       ELSE IF 2 * rem > q THEN fl + 1
       ELSE IF fl % 2 = 0 THEN fl ELSE fl + 1

\* a finite result, or the infinity it overflows to
Overflow(n) == IF n > FMaxN THEN PInf ELSE IF n < 0 - FMaxN THEN NInf ELSE Fin(n)

\* a < b on floats: false when either is not-a-number
FLt(a, b) ==
    IF IsNaN(a) \/ IsNaN(b) THEN FALSE
    ELSE IF IsInf(a) THEN a.n < 0 /\ ~(IsInf(b) /\ b.n < 0)
    ELSE IF IsInf(b) THEN b.n > 0
    ELSE a.n < b.n

\* a <= b on floats: false when either is not-a-number
FLe(a, b) == IF IsNaN(a) \/ IsNaN(b) THEN FALSE ELSE ~FLt(b, a)

FNeg(a) == [a EXCEPT !.n = 0 - a.n]

\* float.__add__
FAdd(a, b) ==
    IF IsNaN(a) \/ IsNaN(b) THEN NaN
    ELSE IF IsInf(a) /\ IsInf(b) THEN (IF a.n = b.n THEN a ELSE NaN)
    ELSE IF IsInf(a) THEN a
    ELSE IF IsInf(b) THEN b
    ELSE Overflow(a.n + b.n)

\* float.__sub__
FSub(a, b) == FAdd(a, FNeg(b))

\* float.__mul__
FMul(a, b) ==
    IF IsNaN(a) \/ IsNaN(b) THEN NaN
    ELSE IF IsInf(a) \/ IsInf(b)
         THEN (IF IsZero(a) \/ IsZero(b) THEN NaN
               ELSE IF Sign(a) * Sign(b) > 0 THEN PInf ELSE NInf)
    ELSE Overflow(RoundDiv(a.n * b.n, FScale))

\* float.__truediv__: a zero divisor raises before anything else is looked at
FDiv(a, b) ==
    IF IsZero(b) THEN ZeroDivisionError
    ELSE IF IsNaN(a) \/ IsNaN(b) THEN NaN
    ELSE IF IsInf(a) THEN (IF IsInf(b) THEN NaN
                           ELSE IF Sign(a) * Sign(b) > 0 THEN PInf ELSE NInf)
    ELSE IF IsInf(b) THEN Fin(0)
    ELSE IF b.n > 0 THEN Overflow(RoundDiv(a.n * FScale, b.n))
    ELSE Overflow(RoundDiv((0 - a.n) * FScale, 0 - b.n))

\* x ** e for a finite x >= 0 and a whole e >= 0, in units
RECURSIVE PowUnits(_, _)
PowUnits(n, e) == IF e = 0 THEN FScale ELSE RoundDiv(n * PowUnits(n, e - 1), FScale)

\* float.__pow__ for a base that is not negative and not infinite (a unit
\* float's payload), and an exponent that is a whole number, an infinity or
\* not-a-number
FPow(a, b) ==
    IF IsZero(b) THEN Fin(FScale)
    ELSE IF IsNaN(a) THEN NaN
    ELSE IF IsNaN(b) THEN (IF a = Fin(FScale) THEN Fin(FScale) ELSE NaN)
    ELSE IF IsInf(b)
         THEN (IF a.n = FScale THEN Fin(FScale)
               ELSE IF (b.n > 0) = (a.n > FScale) THEN PInf
               ELSE Fin(0))
    ELSE IF IsZero(a) THEN (IF b.n < 0 THEN ZeroDivisionError ELSE Fin(0))
    ELSE IF b.n > 0 THEN Overflow(PowUnits(a.n, b.n \div FScale))
    ELSE LET d == PowUnits(a.n, (0 - b.n) \div FScale)
         IN IF d = 0 THEN OverflowError
            ELSE IF RoundDiv(FScale * FScale, d) > FMaxN THEN OverflowError
            ELSE Fin(RoundDiv(FScale * FScale, d))

\* the built-ins min(a, b) and max(a, b) on floats
FPyMin(a, b) == IF FLt(b, a) THEN b ELSE a
FPyMax(a, b) == IF FLt(a, b) THEN b ELSE a

\* functions.clamp on floats
fclamp(value, min_value, max_value) == FPyMax(FPyMin(value, max_value), min_value)

\* functions.clamp01
clamp01(value) == fclamp(value, Fin(0), Fin(FScale))

\* UnitFloat.__new__ / EnforcedUnitFloat(value): the new object, by payload
UnitFloat_new(value) ==
    [t |-> "unit",
     f |-> IF ~(FLe(Fin(0), value) /\ FLe(value, Fin(FScale)))
              THEN clamp01(value) ELSE value]

\* EnforcedUnitFloat._wrap
EnforcedUnitFloat_wrap(value) == UnitFloat_new(clamp01(value))

\* EnforcedUnitFloat._coerce: float(other) of an int, a float or a unit float
EnforcedUnitFloat_coerce(other) ==
    IF other.t = "int" THEN Fin(other.v * FScale) ELSE other.f

\* the raw float a method computes, or the exception the arithmetic raises
RawResult(op, x, o) ==
    CASE op \in {"add", "radd"} -> FAdd(x, o)
      [] op = "sub" -> FSub(x, o)
      [] op = "rsub" -> FSub(o, x)
      [] op \in {"mul", "rmul"} -> FMul(x, o)
      [] op = "truediv" -> FDiv(x, o)
      [] op = "rtruediv" -> FDiv(o, x)
      [] op = "pow" -> FPow(x, o)

FloatOps == {"add", "radd", "sub", "rsub", "mul", "rmul", "truediv", "rtruediv", "pow"}

\* EnforcedUnitFloat.__add__ ... __pow__ on self and other; the r-forms are
\* what Python calls for  other op self
EnforcedUnitFloat_op(op, self, other) ==
    LET o == EnforcedUnitFloat_coerce(other)
        raw == RawResult(op, self.f, o)
    IN IF "t" \in DOMAIN raw THEN raw ELSE EnforcedUnitFloat_wrap(raw)

PlainFloats ==
    {Fin(FStep * i) : i \in (0 - (FMaxOperand \div FStep)) .. (FMaxOperand \div FStep)}
        \cup {Fin(9), PInf, NInf, NaN}

FloatOperands ==
    {[t |-> "float", f |-> v] : v \in PlainFloats}
        \cup {Int_(k) : k \in (0 - MaxFloatInt) .. MaxFloatInt}
        \cup {UnitFloat_new(v) : v \in PlainFloats}

\* the state after the constructor call EnforcedUnitFloat(value)
InitFloat ==
    /\ \E value \in PlainFloats :
          /\ uf = UnitFloat_new(value)
          /\ flast = [op |-> "new", x |-> uf, y |-> [t |-> "float", f |-> value],
                      r |-> uf]
    /\ fcall = Idle /\ cur = Idle /\ last = Idle
    /\ mcur = Idle /\ mraw = Idle /\ mlast = Idle /\ inv = Idle
    /\ gen = Idle /\ yielded = <<>>

OthersOfFloat == <<fcall, cur, last, mcur, mraw, mlast, inv, gen, yielded>>

\* uf op y, or y op uf for the r-forms
FloatOp(op, y) ==
    /\ op = "pow" => LET o == EnforcedUnitFloat_coerce(y)
                     IN o.k = "fin" => o.n % FScale = 0
    /\ LET r == EnforcedUnitFloat_op(op, uf, y)
       IN /\ flast' = [op |-> op, x |-> uf, y |-> y, r |-> r]
          /\ uf' = IF IsErr(r) THEN uf ELSE r
    /\ UNCHANGED OthersOfFloat

NextFloat == \E op \in FloatOps, y \in FloatOperands : FloatOp(op, y)

SpecFloat == InitFloat /\ [][NextFloat]_vars

InUnitInterval(f) == FLe(Fin(0), f) /\ FLe(f, Fin(FScale))

\* C7: for an auto-clamping unit float x (payload in [0.0, 1.0]) and a numeric
\* operand y (a number or a unit float, non-finite values and not-a-number
\* included), each of x + y,
\* y + x, x - y, y - x, x * y, y * x, x / y, y / x and x ** y that returns a
\* value returns an auto-clamping unit float with payload in [0.0, 1.0]; and
\* EnforcedUnitFloat(0.9) + EnforcedUnitFloat(0.5) is EnforcedUnitFloat(1.0).
C7_ResultsStayInUnitInterval ==
    /\ (flast.op # "new" /\ InUnitInterval(flast.x.f) /\ ~IsErr(flast.r))
          => /\ flast.r.t = "unit"
             /\ InUnitInterval(flast.r.f)
    /\ EnforcedUnitFloat_op("add", UnitFloat_new(Fin(9)), UnitFloat_new(Fin(5)))
          = UnitFloat_new(Fin(FScale))

----------------------------------------------------------------------------
(* Properties of the bounded integers.                                     *)

SameClassAndRange(r, b) ==
    /\ r.t = "bounded"
    /\ r.kind = b.kind
    /\ r.min_value = b.min_value
    /\ r.max_value = b.max_value

\* C1: a bounded integer constructed from any raw integer has its payload in
\* [min, max], and every +, - and * with the bounded value on the left and a
\* plain integer on the right gives a bounded value of the same strategy and
\* the same (min, max) whose payload is in [min, max]. The spec's scenario
\* (15 bounded into [0, 10]: 10, 4 and 5) is part of it.
C1_PayloadStaysInRange ==
    /\ InRange(cur)
    /\ last.form = "new" => /\ SameClassAndRange(last.r, last.b)
                            /\ InRange(last.r)
    /\ last.form = "bounded_int" => /\ SameClassAndRange(last.r, last.a)
                                    /\ InRange(last.r)
    /\ BoundedInt_new("CLAMP", 15, 0, 10).v = 10
    /\ BoundedInt_new("CYCLIC", 15, 0, 10).v = 4
    /\ BoundedInt_new("BOUNCE", 15, 0, 10).v = 5

\* a product with a plain integer whose raw value left the range on the high
\* side, taken on a value that is itself the result of an operation
C1_Witness ==
    /\ last.form = "bounded_int"
    /\ last.op = "mul"
    /\ last.a.kind = "BOUNCE"
    /\ last.a.v * last.b.v > last.a.max_value
    /\ last.r.v # last.a.max_value
    /\ InRange(last.r)

DifferentRange(a, b) == a.min_value # b.min_value \/ a.max_value # b.max_value

C10_ReflectedOpsBounded ==
    last.form = "int_bounded"
        => /\ SameClassAndRange(last.r, last.b)
           /\ InRange(last.r)
           /\ last.op = "add" => last.r = BinaryOp("add", last.b, last.a)

============================================================================
